---- MODULE Spec2Model ----
(***************************************************************************)
(* Orchestration core of the car scraper (src/backend/index.ts):           *)
(* scrapeAllSites initialises two Stagehand environments, partitions the   *)
(* registered sites into the proxy group and the direct group, runs each   *)
(* group through runInBatches, and every site job is one call of           *)
(* processSite.  Every `await` of the source is a suspension point; the    *)
(* code that runs after it is one action of the model.                     *)
(***************************************************************************)
EXTENDS Integers, Sequences, FiniteSets, TLC

\* ---------------------------------------------------------------- bounds
\* Number of registered sites (entries of siteConfigs).
MaxSites == 3
\* Largest configured CONCURRENCY_LIMIT explored.
MaxLimit == 2
\* Largest number of cars one extractCars call returns.
MaxCars == 1
\* Number of startScraping calls made on the SSE service.
MaxSessions == 2
\* Largest number of lines between the connected line and the terminal line
\* of a scrape stream.
MaxBody == 1
\* Largest number of result pages the CarToTrade site is followed over.
MaxResultPages == 4
\* How far below 0 the loop index of runInBatches is followed.
MaxRewind == 2
\* Oldest model year that can be asked for, in years before the current one.
MaxYearsBack == 3

Sites == 1 .. MaxSites
Groups == {"proxy", "direct"}

\* Site 1 is the entry named "bca"; the name only matters for the
\* context-level CSS route of processSite.
IsBca(s) == s = 1

\* The useProxies flags explored: the first k sites need proxies.
ProxyFlagChoices == { [s \in Sites |-> s <= k] : k \in 0 .. MaxSites }

\* Number(process.env.CONCURRENCY_LIMIT) || 5, for positive whole settings.
LimitChoices == 1 .. MaxLimit
\* The same for the settings "-1" and "1": Number("-1") is -1, which is
\* truthy and is used as it is.
SignedLimitChoices == { -1, 1 }

VARIABLES
  useProxies,        \* siteConfig.useProxies of every site
  concurrencyLimit,  \* const concurrencyLimit
  hasOnProgress,     \* whether the caller passed onProgress
  mainPc,            \* position of scrapeAllSites
  env,               \* state of stagehandWithProxies / stagehandWithoutProxies
  closeCalls,        \* number of close() calls made on each environment
  runner,            \* per group: the runInBatches(...).then(...) chain
  jobPc,             \* per site: position of processSite
  jobValue,          \* per site: extractedData / the value processSite returns
  page,              \* per site: the page made by context.newPage()
  currentSiteIndex,  \* let currentSiteIndex
  progress,          \* the onProgress invocations, in order
  allCarData,        \* const allCarData / the value scrapeAllSites returns
  siteCredentials,   \* per site: what the credential checks of processSite find
  contextRoutes,     \* per group: the jobs whose route is on stagehand.context
  apiVehicle,        \* argument of convertApiVehicleToVehicle
  vehicle,           \* const vehicle / the value convertApiVehicleToVehicle returns
  searchParams,      \* argument of convertSearchParamsToApi
  apiRequest,        \* const apiRequest / the value convertSearchParamsToApi returns
  abortController,   \* ScrapeSSEApiService.abortController: 0 is null
  sessions,          \* per startScraping call: its controller, stream and locals
  trace,             \* callbacks invoked and abort() calls made, in order
  disposal,          \* Disposal Network driver: page flags, params and locals
  cartotrade         \* CarToTrade driver: the locals of extractCars

\* State of the components that scrapeAllSites never touches.
normVars == << apiVehicle, vehicle, searchParams, apiRequest >>
sseVars == << abortController, sessions, trace >>
driverVars == << disposal, cartotrade >>
outsideVars == << normVars, sseVars, driverVars >>

vars == << useProxies, concurrencyLimit, hasOnProgress, mainPc, env,
           closeCalls, runner, jobPc, jobValue, page, currentSiteIndex,
           progress, allCarData, siteCredentials, contextRoutes, outsideVars >>

\* ------------------------------------------------------------- helpers
Min(a, b) == IF a < b THEN a ELSE b
Max(a, b) == IF a > b THEN a ELSE b

\* Array.prototype.filter over Object.values(siteConfigs): keeps order.
RECURSIVE FilterSites(_, _)
FilterSites(flag, n) ==
  IF n = 0 THEN << >>
  ELSE IF useProxies[n] = flag
       THEN Append(FilterSites(flag, n - 1), n)
       ELSE FilterSites(flag, n - 1)

\* proxySiteConfigs / nonProxySiteConfigs
GroupSites(g) == FilterSites(g = "proxy", MaxSites)

GroupOf(s) == IF useProxies[s] THEN "proxy" ELSE "direct"

\* Math.min(concurrencyLimit, <group>.length)
BatchSize(g) == Min(concurrencyLimit, Len(GroupSites(g)))

\* Array.prototype.slice(a, b): relative indices, clamped to the array.
SliceStart(len, a) == IF a < 0 THEN Max(len + a, 0) ELSE Min(a, len)
SliceOf(seq, a, b) ==
  SubSeq(seq, SliceStart(Len(seq), a) + 1, SliceStart(Len(seq), b))

\* tasks.slice(i, i + batchSize) of group g at loop index i
\* Bug variant: the slice takes one task more than the batch size.
BatchSeq_OneTooMany(g, i) == SliceOf(GroupSites(g), i, i + BatchSize(g) + 1)
BatchSeq(g, i) == SliceOf(GroupSites(g), i, i + BatchSize(g))
BatchOf(g, i) == { BatchSeq(g, i)[k] : k \in 1 .. Len(BatchSeq(g, i)) }

\* Object.keys(siteConfigs).length
totalSites == MaxSites

NullValue == [isNull |-> TRUE, cars |-> << >>]
Cars(s, n) == [isNull |-> FALSE, cars |-> [k \in 1 .. n |-> << s, k >>]]

\* Positions of processSite at which the job is suspended on an await.
AwaitPcs == { "newPage", "blocking", "ctxRoute", "login", "waitLoad",
              "goto", "applyFilters", "extractCars", "pageClose" }

\* ---------------------------------------------- values of the frontend
\* A JavaScript value found in a field of a JSON record: undefined (field
\* absent), null, or a string.
Undefined == [kind |-> "undefined", s |-> ""]
Null == [kind |-> "null", s |-> ""]
Str(x) == [kind |-> "string", s |-> x]
\* A number, written as its decimal text.
Num(x) == [kind |-> "number", s |-> x]

\* The fields of a raw record that convertApiVehicleToVehicle reads, by the
\* field of the vehicle they feed; the timestamp of a raw record is a field
\* the scrapers may send along.
IdFields == { "id" }
PriceFields == { "price" }
MileageFields == { "mileage" }
TimestampFields == { "timestamp" }
TitleFields == { "title", "primaryVehicleDescription", "make", "model" }
ImageFields == { "imageUrl", "image" }
LocationFields == { "location", "localSaleLocation", "dealer" }
RegistrationFields == { "registration", "reg", "vrm" }
SourceFields == { "source", "website" }
UrlFields == { "url" }
FieldGroups == { TitleFields, ImageFields, LocationFields,
                 RegistrationFields, SourceFields, UrlFields, IdFields,
                 PriceFields, MileageFields, TimestampFields }
RawFields == UNION FieldGroups

\* The startScraping calls, in call order.
SessionIds == 1 .. MaxSessions
\* A call that has not been made yet.
NoSession ==
  [pc |-> "unused", aborted |-> FALSE, body |-> << >>, stream |-> << >>,
   buffer |-> << >>, lines |-> << >>]

\* The Disposal Network driver before applyFilters is called on a fresh
\* page: no _disposalnetwork* flag and no _lastDisposalNetworkResponse is
\* set (<< >> is undefined), and params asks for nothing.  A response is the
\* results page it carries and the number of vehicles in it.
DnIdle ==
  [pc |-> "idle", make |-> FALSE, model |-> FALSE, maxMileage |-> FALSE,
   priceAge |-> FALSE, noResults |-> "undefined", makeApplied |-> "undefined",
   modelApplied |-> "undefined", lastResponse |-> << >>, allResponses |-> << >>,
   pageNum |-> 0, allCarData |-> << >>]
\* extractCars of the CarToTrade driver before it is called.
CtIdle ==
  [pc |-> "idle", searchExecuted |-> "undefined", currentPage |-> 0,
   hasMorePages |-> TRUE, allCarData |-> << >>]

\* A year field of the search form: not set, the empty string, the "any"
\* entry of its select box, or the text of a year.
NoYear == [kind |-> "undefined", year |-> 0]
EmptyYear == [kind |-> "empty", year |-> 0]
AnyYear == [kind |-> "any", year |-> 0]
YearText(y) == [kind |-> "year", year |-> y]
\* A field that is not in the request, and one that is.
Absent == [present |-> FALSE, n |-> 0]
Present(n) == [present |-> TRUE, n |-> n]
\* No search parameters and no converted request yet.
NoParams == [minYear |-> NoYear, maxYear |-> NoYear]
NoRequest == [returned |-> FALSE, minAge |-> Absent, maxAge |-> Absent]

\* No raw record and no converted vehicle yet.
NoRecord == [f \in RawFields |-> Undefined]
NoVehicle == [returned |-> FALSE]

\* ------------------------------------------------------------------ Init
\* scrapeAllSites has been called and has not run yet.
BackendCalled ==
  /\ useProxies \in ProxyFlagChoices
  /\ hasOnProgress \in BOOLEAN
  /\ mainPc = "awaitInit"
  /\ env = [g \in Groups |-> "initializing"]
  /\ closeCalls = [g \in Groups |-> 0]
  /\ runner = [g \in Groups |-> [pc |-> "notStarted", i |-> 0, results |-> << >>]]
  /\ jobPc = [s \in Sites |-> "pending"]
  /\ jobValue = [s \in Sites |-> NullValue]
  /\ page = [s \in Sites |-> "none"]
  /\ currentSiteIndex = 0
  /\ progress = << >>
  /\ allCarData = << >>
  /\ contextRoutes = [g \in Groups |-> {}]

\* The runs with a positive whole CONCURRENCY_LIMIT.
BackendStart == concurrencyLimit \in LimitChoices /\ BackendCalled

\* The run under every environment at once: no site's credentials are fixed.
BackendInit == BackendStart /\ siteCredentials = [s \in Sites |-> "open"]

\* Nothing is being converted.
AgesIdle == searchParams = NoParams /\ apiRequest = NoRequest
NormIdle == apiVehicle = NoRecord /\ vehicle = NoVehicle /\ AgesIdle

\* The SSE service has been constructed and never used.
SseIdle ==
  /\ abortController = 0
  /\ sessions = [k \in SessionIds |-> NoSession]
  /\ trace = << >>

\* No driver function is being followed step by step.
DriversIdle == disposal = DnIdle /\ cartotrade = CtIdle

Init == BackendInit /\ NormIdle /\ SseIdle /\ DriversIdle

\* ------------------------------------------------ scrapeAllSites: init
\* stagehand.init() of one environment settles.
InitDone(g) ==
  /\ env[g] = "initializing"
  /\ \E ok \in BOOLEAN : env' = [env EXCEPT ![g] = IF ok THEN "ready" ELSE "initFailed"]
  /\ UNCHANGED << outsideVars, siteCredentials, contextRoutes,
                  useProxies, concurrencyLimit, hasOnProgress, mainPc,
                  closeCalls, runner, jobPc, jobValue, page,
                  currentSiteIndex, progress, allCarData >>

\* await Promise.all([init, init]) rejects with the first failed init.
InitReject ==
  /\ mainPc = "awaitInit"
  /\ \E g \in Groups : env[g] = "initFailed"
  /\ mainPc' = "rejected"
  /\ UNCHANGED << outsideVars, siteCredentials, contextRoutes,
                  useProxies, concurrencyLimit, hasOnProgress, env,
                  closeCalls, runner, jobPc, jobValue, page,
                  currentSiteIndex, progress, allCarData >>

\* The for-loop test of runInBatches at index i: either the next batch is
\* started and awaited, or the loop ends, runInBatches returns and the
\* .then callback calls close() on the group's environment.
LoopContinues(g, i) == i < Len(GroupSites(g))
LoopRunner(g, i, res) ==
  [pc |-> IF LoopContinues(g, i) THEN "awaitBatch" ELSE "awaitClose",
   i |-> i, results |-> res]
LoopStarts(g, i) == IF LoopContinues(g, i) THEN BatchOf(g, i) ELSE {}

\* fn() of every task of a batch: processSite runs up to context.newPage().
StartedPc(pcs, S) == [s \in Sites |-> IF s \in S THEN "newPage" ELSE pcs[s]]

\* Both inits succeeded: the rest of scrapeAllSites up to the await of the
\* two group promises.  An empty group is Promise.resolve([]).
GroupIsRun(g) == Len(GroupSites(g)) > 0
Launch ==
  /\ mainPc = "awaitInit"
  /\ \A g \in Groups : env[g] = "ready"
  /\ mainPc' = "awaitGroups"
  /\ runner' = [g \in Groups |->
                  IF GroupIsRun(g) THEN LoopRunner(g, 0, << >>)
                  ELSE [pc |-> "resolved", i |-> 0, results |-> << >>]]
  /\ jobPc' = StartedPc(jobPc,
                UNION { IF GroupIsRun(g) THEN LoopStarts(g, 0) ELSE {} : g \in Groups })
  /\ UNCHANGED << outsideVars, siteCredentials, contextRoutes,
                  useProxies, concurrencyLimit, hasOnProgress, env,
                  closeCalls, jobValue, page, currentSiteIndex, progress,
                  allCarData >>

\* ------------------------------------------------------- runInBatches
\* Bug variant: waits for the first fulfilled promise only (Promise.race).
PromiseAllFulfilled_First(S) == \E s \in S : jobPc[s] = "resolved"
\* Promise.all(batch) fulfils once every promise of the batch has fulfilled
PromiseAllFulfilled(S) == \A s \in S : jobPc[s] = "resolved"
\* and rejects as soon as one of them has rejected.
PromiseAllRejected(S) == \E s \in S : jobPc[s] = "rejected"

\* Bug variant: the batch results replace the results collected so far.
PushResults_Overwrite(res, batch) == [k \in 1 .. Len(batch) |-> jobValue[batch[k]]]
\* results.push(...batchResults)
PushResults(res, batch) == res \o [k \in 1 .. Len(batch) |-> jobValue[batch[k]]]

\* Bug variant: one shared queue, a group also waits for the other group's
\* running jobs.
BatchAwaitResumes_SharedQueue(g) ==
  /\ runner[g].pc = "awaitBatch"
  /\ \A s \in BatchOf(g, runner[g].i) : jobPc[s] = "resolved"
  /\ \A s \in Sites : useProxies[s] # (g = "proxy") => jobPc[s] \notin AwaitPcs
\* const batchResults = await Promise.all(batch) of group g resumes.
BatchAwaitResumes(g) ==
  /\ runner[g].pc = "awaitBatch"
  /\ PromiseAllFulfilled(BatchOf(g, runner[g].i))

BatchDone(g) ==
  /\ BatchAwaitResumes(g)
  /\ LET i2 == runner[g].i + BatchSize(g)
         res == PushResults(runner[g].results, BatchSeq(g, runner[g].i))
     IN /\ runner' = [runner EXCEPT ![g] = LoopRunner(g, i2, res)]
        /\ jobPc' = StartedPc(jobPc, LoopStarts(g, i2))
        /\ IF LoopContinues(g, i2)
           THEN UNCHANGED << env, closeCalls >>
           ELSE /\ env' = [env EXCEPT ![g] = "closing"]
                /\ closeCalls' = [closeCalls EXCEPT ![g] = @ + 1]
  /\ UNCHANGED << outsideVars, siteCredentials, contextRoutes,
                  useProxies, concurrencyLimit, hasOnProgress, mainPc,
                  jobValue, page, currentSiteIndex, progress, allCarData >>

BatchReject(g) ==
  /\ runner[g].pc = "awaitBatch"
  /\ PromiseAllRejected(BatchOf(g, runner[g].i))
  /\ runner' = [runner EXCEPT ![g].pc = "batchRejected"]
  /\ UNCHANGED << outsideVars, siteCredentials, contextRoutes,
                  useProxies, concurrencyLimit, hasOnProgress, mainPc, env,
                  closeCalls, jobPc, jobValue, page, currentSiteIndex,
                  progress, allCarData >>

\* await stagehand.close() in the .then callback settles.
EnvCloseDone(g) ==
  /\ runner[g].pc = "awaitClose"
  /\ env[g] = "closing"
  /\ \E ok \in BOOLEAN :
       /\ env' = [env EXCEPT ![g] = IF ok THEN "closed" ELSE "closeFailed"]
       /\ runner' = [runner EXCEPT ![g].pc = IF ok THEN "resolved" ELSE "closeRejected"]
  /\ UNCHANGED << outsideVars, siteCredentials, contextRoutes,
                  useProxies, concurrencyLimit, hasOnProgress, mainPc,
                  closeCalls, jobPc, jobValue, page, currentSiteIndex,
                  progress, allCarData >>

\* -------------------------------------------------------- processSite
JobFrame == << outsideVars, useProxies, concurrencyLimit, hasOnProgress, mainPc, env,
               closeCalls, runner, allCarData >>

\* await context.newPage() settles; it is outside the try block.
NewPageDone(s) ==
  /\ jobPc[s] = "newPage"
  /\ \E ok \in BOOLEAN :
       IF ok
       THEN /\ page' = [page EXCEPT ![s] = "open"]
            /\ jobPc' = [jobPc EXCEPT ![s] = "blocking"]
       ELSE /\ jobPc' = [jobPc EXCEPT ![s] = "rejected"]
            /\ UNCHANGED page
  /\ UNCHANGED << JobFrame, siteCredentials, contextRoutes, jobValue, currentSiteIndex, progress >>

\* catch (error) { currentSiteIndex++; return null } finally { close }
\* Bug variant: the catch block starts the job again from the login step.
CatchError_Retry(s) ==
  /\ jobPc' = [jobPc EXCEPT ![s] = "login"]
  /\ UNCHANGED << jobValue, currentSiteIndex >>
CatchError(s) ==
  /\ currentSiteIndex' = currentSiteIndex + 1
  /\ jobValue' = [jobValue EXCEPT ![s] = NullValue]
  /\ jobPc' = [jobPc EXCEPT ![s] = "pageClose"]

\* Entry of the try block: the credential checks, then siteConfig.login.
\* siteCredentials[siteConfig.name] is built from the process environment:
\* "present" is an entry with a username and a password, "missing" is no
\* entry or an empty username or password, for which the check throws into
\* the catch block.  "open" leaves the environment of the site undetermined:
\* the check may go either way.
CredentialChecks(s) ==
  CASE siteCredentials[s] = "present" -> { TRUE }
    [] siteCredentials[s] = "missing" -> { FALSE }
    [] siteCredentials[s] = "open" -> BOOLEAN
\* Bug variant: the job logs in without looking at the credentials.
EnterTry_NoCheck(s) ==
  /\ jobPc' = [jobPc EXCEPT ![s] = "login"]
  /\ UNCHANGED << jobValue, currentSiteIndex >>
EnterTry(s) ==
  \E credsOk \in CredentialChecks(s) :
    IF credsOk
    THEN /\ jobPc' = [jobPc EXCEPT ![s] = "login"]
         /\ UNCHANGED << jobValue, currentSiteIndex >>
    ELSE CatchError(s)

\* await setupSiteSpecificResourceBlocking(newPage, siteConfig) settles;
\* outside the try block.
BlockingDone(s) ==
  /\ jobPc[s] = "blocking"
  /\ \E ok \in BOOLEAN :
       IF ~ok
       THEN /\ jobPc' = [jobPc EXCEPT ![s] = "rejected"]
            /\ UNCHANGED << jobValue, currentSiteIndex >>
       ELSE IF useProxies[s] /\ ~IsBca(s)
            THEN /\ jobPc' = [jobPc EXCEPT ![s] = "ctxRoute"]
                 /\ UNCHANGED << jobValue, currentSiteIndex >>
            ELSE EnterTry(s)
  /\ UNCHANGED << JobFrame, siteCredentials, contextRoutes, page, progress >>

\* const context = stagehand.context: the browser context a job works in is
\* the one context of its group's Stagehand environment.
ContextOf(s) == GroupOf(s)

\* await context.route("**/*.css", ...) settles; outside the try block.  The
\* handler is registered on the context, not on the job's page.
CtxRouteDone(s) ==
  /\ jobPc[s] = "ctxRoute"
  /\ \E ok \in BOOLEAN :
       IF ok
       THEN /\ contextRoutes' = [contextRoutes EXCEPT
                                   ![ContextOf(s)] = @ \cup {s}]
            /\ EnterTry(s)
       ELSE /\ jobPc' = [jobPc EXCEPT ![s] = "rejected"]
            /\ UNCHANGED << jobValue, currentSiteIndex, contextRoutes >>
  /\ UNCHANGED << JobFrame, siteCredentials, page, progress >>

\* await siteConfig.login(newPage, credentials) settles.
LoginDone(s) ==
  /\ jobPc[s] = "login"
  /\ \E ok \in BOOLEAN :
       IF ok
       THEN /\ jobPc' = [jobPc EXCEPT ![s] = "waitLoad"]
            /\ UNCHANGED << jobValue, currentSiteIndex >>
       ELSE CatchError(s)
  /\ UNCHANGED << JobFrame, siteCredentials, contextRoutes, page, progress >>

\* waitForLoadState + waitForTimeout settle; then the search-URL branch:
\* navigate (shouldNavigateToSearchUrl and buildSearchUrl) or go straight to
\* applyFilters.
WaitLoadDone(s) ==
  /\ jobPc[s] = "waitLoad"
  /\ \E ok \in BOOLEAN :
       IF ok
       THEN /\ \E navigates \in BOOLEAN :
                 jobPc' = [jobPc EXCEPT ![s] =
                             IF navigates THEN "goto" ELSE "applyFilters"]
            /\ UNCHANGED << jobValue, currentSiteIndex >>
       ELSE CatchError(s)
  /\ UNCHANGED << JobFrame, siteCredentials, contextRoutes, page, progress >>

\* newPage.goto(searchUrl) + waitForLoadState settle.
GotoDone(s) ==
  /\ jobPc[s] = "goto"
  /\ \E ok \in BOOLEAN :
       IF ok
       THEN /\ jobPc' = [jobPc EXCEPT ![s] = "applyFilters"]
            /\ UNCHANGED << jobValue, currentSiteIndex >>
       ELSE CatchError(s)
  /\ UNCHANGED << JobFrame, siteCredentials, contextRoutes, page, progress >>

\* The tail of the try block once extractedData is known: the progress
\* emission, currentSiteIndex++, return extractedData (then finally).
\* Bug variant: an empty list of cars is not reported.
EmitsProgress_NonEmpty(v) == hasOnProgress /\ ~v.isNull /\ Len(v.cars) > 0
EmitsProgress(v) == hasOnProgress /\ ~v.isNull
\* Bug variant: the event carries the counter before the site is counted.
ProgressEvent_ZeroBased(s, v) ==
  [siteName |-> s, cars |-> v.cars, totalSites |-> totalSites,
   currentSite |-> currentSiteIndex]
ProgressEvent(s, v) ==
  [siteName |-> s, cars |-> v.cars, totalSites |-> totalSites,
   currentSite |-> currentSiteIndex + 1]
\* Bug variant: the event is held back instead of being passed to onProgress.
FinishTry_Buffered(s, v) ==
  /\ progress' = progress
  /\ currentSiteIndex' = currentSiteIndex + 1
  /\ jobValue' = [jobValue EXCEPT ![s] = v]
  /\ jobPc' = [jobPc EXCEPT ![s] = "pageClose"]
FinishTry(s, v) ==
  /\ progress' = IF EmitsProgress(v)
                 THEN Append(progress, ProgressEvent(s, v))
                 ELSE progress
  /\ currentSiteIndex' = currentSiteIndex + 1
  /\ jobValue' = [jobValue EXCEPT ![s] = v]
  /\ jobPc' = [jobPc EXCEPT ![s] = "pageClose"]

\* await siteConfig.applyFilters(newPage, searchParams) settles; a site
\* without extractCars finishes with extractedData = null.
ApplyFiltersDone(s) ==
  /\ jobPc[s] = "applyFilters"
  /\ \E ok \in BOOLEAN :
       IF ok
       THEN \E hasExtractCars \in BOOLEAN :
              IF hasExtractCars
              THEN /\ jobPc' = [jobPc EXCEPT ![s] = "extractCars"]
                   /\ UNCHANGED << jobValue, currentSiteIndex, progress >>
              ELSE FinishTry(s, NullValue)
       ELSE CatchError(s) /\ UNCHANGED progress
  /\ UNCHANGED << JobFrame, siteCredentials, contextRoutes, page >>

\* What extractCars can resolve with: null/undefined or a list of cars.
ExtractOutcomes(s) == { NullValue } \cup { Cars(s, n) : n \in 0 .. MaxCars }

\* await siteConfig.extractCars(...) settles.
ExtractCarsDone(s) ==
  /\ jobPc[s] = "extractCars"
  /\ \/ \E v \in ExtractOutcomes(s) : FinishTry(s, v)
     \/ CatchError(s) /\ UNCHANGED progress
  /\ UNCHANGED << JobFrame, siteCredentials, contextRoutes, page >>

\* finally: await newPage.close() settles; a throwing close replaces the
\* value the try/catch returned.
PageCloseDone(s) ==
  /\ jobPc[s] = "pageClose"
  /\ \E ok \in BOOLEAN :
       IF ok
       THEN /\ page' = [page EXCEPT ![s] = "closed"]
            /\ jobPc' = [jobPc EXCEPT ![s] = "resolved"]
       ELSE /\ jobPc' = [jobPc EXCEPT ![s] = "rejected"]
            /\ UNCHANGED page
  /\ UNCHANGED << JobFrame, siteCredentials, contextRoutes, jobValue, currentSiteIndex, progress >>

\* --------------------------------------------- scrapeAllSites: the end
\* The compile loop: every non-null site result is spread into allCarData.
RECURSIVE Compile(_)
Compile(results) ==
  IF results = << >> THEN << >>
  ELSE (IF Head(results).isNull THEN << >> ELSE Head(results).cars)
       \o Compile(Tail(results))

\* await Promise.all([proxy chain, direct chain]) fulfils.
GroupsDone ==
  /\ mainPc = "awaitGroups"
  /\ \A g \in Groups : runner[g].pc = "resolved"
  /\ allCarData' = Compile(runner["proxy"].results \o runner["direct"].results)
  /\ mainPc' = "resolved"
  /\ UNCHANGED << outsideVars, siteCredentials, contextRoutes,
                  useProxies, concurrencyLimit, hasOnProgress, env,
                  closeCalls, runner, jobPc, jobValue, page,
                  currentSiteIndex, progress >>

\* await Promise.all([...]) rejects with the first rejected chain.
GroupsReject ==
  /\ mainPc = "awaitGroups"
  /\ \E g \in Groups : runner[g].pc \in { "batchRejected", "closeRejected" }
  /\ mainPc' = "rejected"
  /\ UNCHANGED << outsideVars, siteCredentials, contextRoutes,
                  useProxies, concurrencyLimit, hasOnProgress, env,
                  closeCalls, runner, jobPc, jobValue, page,
                  currentSiteIndex, progress, allCarData >>

Next ==
  \/ \E g \in Groups : InitDone(g)
  \/ InitReject
  \/ Launch
  \/ \E g \in Groups : BatchDone(g)
  \/ \E g \in Groups : BatchReject(g)
  \/ \E g \in Groups : EnvCloseDone(g)
  \/ \E s \in Sites : NewPageDone(s)
  \/ \E s \in Sites : BlockingDone(s)
  \/ \E s \in Sites : CtxRouteDone(s)
  \/ \E s \in Sites : LoginDone(s)
  \/ \E s \in Sites : WaitLoadDone(s)
  \/ \E s \in Sites : GotoDone(s)
  \/ \E s \in Sites : ApplyFiltersDone(s)
  \/ \E s \in Sites : ExtractCarsDone(s)
  \/ \E s \in Sites : PageCloseDone(s)
  \/ GroupsDone
  \/ GroupsReject

Spec == Init /\ [][Next]_vars

\* ------------------------------------- runs with a site lacking credentials
\* The environments explored: one site has no usable credentials, all others
\* have them; the caller passes onProgress.
CredentialChoices ==
  { [s \in Sites |-> IF s = m THEN "missing" ELSE "present"] : m \in Sites }

InitCreds ==
  /\ BackendStart
  /\ hasOnProgress
  /\ siteCredentials \in CredentialChoices
  /\ NormIdle /\ SseIdle /\ DriversIdle

SpecCreds == InitCreds /\ [][Next]_vars

\* ------------------------------------ runs with a negative CONCURRENCY_LIMIT
InitLimits ==
  /\ concurrencyLimit \in SignedLimitChoices
  /\ BackendCalled
  /\ ~hasOnProgress
  /\ siteCredentials = [s \in Sites |-> "open"]
  /\ NormIdle /\ SseIdle /\ DriversIdle

\* The continuation of runInBatches, followed while the loop index is above
\* -MaxRewind.
BatchDoneWithin(g) == runner[g].i > -MaxRewind /\ BatchDone(g)

NextLimits ==
  \/ \E g \in Groups : InitDone(g)
  \/ InitReject
  \/ Launch
  \/ \E g \in Groups : BatchDoneWithin(g)
  \/ \E g \in Groups : BatchReject(g)
  \/ \E g \in Groups : EnvCloseDone(g)
  \/ \E s \in Sites : NewPageDone(s)
  \/ \E s \in Sites : BlockingDone(s)
  \/ \E s \in Sites : CtxRouteDone(s)
  \/ \E s \in Sites : LoginDone(s)
  \/ \E s \in Sites : WaitLoadDone(s)
  \/ \E s \in Sites : GotoDone(s)
  \/ \E s \in Sites : ApplyFiltersDone(s)
  \/ \E s \in Sites : ExtractCarsDone(s)
  \/ \E s \in Sites : PageCloseDone(s)
  \/ GroupsDone
  \/ GroupsReject

SpecLimits == InitLimits /\ [][NextLimits]_vars

\* ------------------------------------ runs with a throwing progress callback
\* The caller passes an onProgress that may throw.
InitThrowing ==
  /\ BackendInit
  /\ hasOnProgress
  /\ NormIdle /\ SseIdle /\ DriversIdle

\* The tail of the try block when the call of onProgress throws: the
\* callback has been invoked, the statements after the call are skipped and
\* the catch block runs.
ProgressThrows(s, v) ==
  /\ EmitsProgress(v)
  /\ progress' = Append(progress, ProgressEvent(s, v))
  /\ CatchError(s)

\* await siteConfig.extractCars(...) settles, with such a callback.
ExtractCarsDoneThrowing(s) ==
  /\ jobPc[s] = "extractCars"
  /\ \/ \E v \in ExtractOutcomes(s) : FinishTry(s, v) \/ ProgressThrows(s, v)
     \/ CatchError(s) /\ UNCHANGED progress
  /\ UNCHANGED << JobFrame, siteCredentials, contextRoutes, page >>

NextThrowing ==
  \/ \E g \in Groups : InitDone(g)
  \/ InitReject
  \/ Launch
  \/ \E g \in Groups : BatchDone(g)
  \/ \E g \in Groups : BatchReject(g)
  \/ \E g \in Groups : EnvCloseDone(g)
  \/ \E s \in Sites : NewPageDone(s)
  \/ \E s \in Sites : BlockingDone(s)
  \/ \E s \in Sites : CtxRouteDone(s)
  \/ \E s \in Sites : LoginDone(s)
  \/ \E s \in Sites : WaitLoadDone(s)
  \/ \E s \in Sites : GotoDone(s)
  \/ \E s \in Sites : ApplyFiltersDone(s)
  \/ \E s \in Sites : ExtractCarsDoneThrowing(s)
  \/ \E s \in Sites : PageCloseDone(s)
  \/ GroupsDone
  \/ GroupsReject

SpecThrowing == InitThrowing /\ [][NextThrowing]_vars

\* ============================================ convertApiVehicleToVehicle
\* (src/frontend/src/services/api/vehicleApi.ts)
\* The raw records explored: the candidate fields of one vehicle field take
\* every combination of absent, null, empty string and text (the text of a
\* field is its own name); the other fields are absent.  price and mileage
\* may also be the numbers 0 and 1.
ValueKinds == { "undefined", "null", "empty", "text" }
KindsOf(G) ==
  IF G \in { PriceFields, MileageFields } THEN ValueKinds \cup { "zero", "one" }
  ELSE ValueKinds
ValueOf(f, k) ==
  CASE k = "undefined" -> Undefined
    [] k = "null" -> Null
    [] k = "empty" -> Str("")
    [] k = "text" -> Str(f)
    [] k = "zero" -> Num("0")
    [] k = "one" -> Num("1")
ApiVehicleChoices ==
  UNION { { [f \in RawFields |-> IF f \in G THEN ValueOf(f, kinds[f])
                                              ELSE Undefined]
            : kinds \in [G -> KindsOf(G)] } : G \in FieldGroups }

\* ToBoolean
Truthy(v) ==
  \/ v.kind = "string" /\ v.s # ""
  \/ v.kind = "number" /\ v.s # "0"
\* a || b
Or(a, b) == IF Truthy(a) THEN a ELSE b
\* ToString
ToStringJs(v) ==
  CASE v.kind = "undefined" -> "undefined"
    [] v.kind = "null" -> "null"
    [] v.kind = "string" -> v.s
    [] v.kind = "number" -> v.s
\* a + b where at least one operand is a string
Plus(a, b) == Str(ToStringJs(a) \o ToStringJs(b))

\* title: title || primaryVehicleDescription || make + " " + model ||
\* "Unknown Vehicle"; `+` binds tighter than `||`.
TitleOf(r) ==
  Or(Or(Or(r["title"], r["primaryVehicleDescription"]),
        Plus(Plus(r["make"], Str(" ")), r["model"])),
     Str("Unknown Vehicle"))
ImageUrlOf(r) ==
  Or(Or(r["imageUrl"], r["image"]), Str("https://via.placeholder.com/400"))
\* Bug variant: the dealer is preferred to the sale location.
LocationOf_DealerFirst(r) ==
  Or(Or(Or(r["location"], r["dealer"]), r["localSaleLocation"]), Str("Unknown"))
LocationOf(r) ==
  Or(Or(Or(r["location"], r["localSaleLocation"]), r["dealer"]), Str("Unknown"))
RegistrationOf(r) ==
  Or(Or(Or(r["registration"], r["reg"]), r["vrm"]), Str("Unknown"))
SourceOf(r) == Or(Or(r["source"], r["website"]), Str("Unknown Source"))
UrlOf(r) == Or(r["url"], Str("#"))
\* id || `${Date.now()}-${Math.random().toString(36).substring(2)}`
IdOf(r) == Or(r["id"], Str("generated"))
PriceOf(r) == Or(Or(r["price"], r["price"]), Str("0"))
\* new Date().toISOString(): the time of the call.
NormalizationTime == Str("now")
TimestampOf(r) == NormalizationTime
MileageOf(r) == Or(r["mileage"], Undefined)

\* The vehicle literal built from the raw record.
ConvertApiVehicleToVehicle(r) ==
  [returned |-> TRUE, id |-> IdOf(r), title |-> TitleOf(r),
   price |-> PriceOf(r), imageUrl |-> ImageUrlOf(r),
   location |-> LocationOf(r), registration |-> RegistrationOf(r),
   source |-> SourceOf(r), url |-> UrlOf(r), timestamp |-> TimestampOf(r),
   mileage |-> MileageOf(r)]

\* The backend is not running while the frontend components are explored.
BackendIdle ==
  /\ BackendInit
  /\ useProxies = [s \in Sites |-> FALSE]
  /\ concurrencyLimit = 1
  /\ ~hasOnProgress
BackendVars ==
  << useProxies, concurrencyLimit, hasOnProgress, mainPc, env, closeCalls,
     runner, jobPc, jobValue, page, currentSiteIndex, progress, allCarData,
     siteCredentials, contextRoutes >>

InitNormalize ==
  /\ BackendIdle /\ SseIdle /\ DriversIdle
  /\ apiVehicle \in ApiVehicleChoices
  /\ vehicle = NoVehicle
  /\ AgesIdle

\* One call of convertApiVehicleToVehicle(apiVehicle).
Convert ==
  /\ ~vehicle.returned
  /\ vehicle' = ConvertApiVehicleToVehicle(apiVehicle)
  /\ UNCHANGED << BackendVars, sseVars, driverVars, apiVehicle, searchParams,
                  apiRequest >>

SpecNormalize == InitNormalize /\ [][Convert]_vars

\* ============================================== convertSearchParamsToApi
\* (src/frontend/src/services/api/vehicleApi.ts)
\* new Date().getFullYear() at the time of the call.
currentYear == 2026
\* The years explored: from MaxYearsBack years ago to next year.
YearChoices == (currentYear - MaxYearsBack) .. (currentYear + 1)
YearFieldChoices == { NoYear, EmptyYear, AnyYear } \cup { YearText(y) : y \in YearChoices }

\* params.minYear && params.minYear !== "any_min_year" (the same for maxYear)
YearGiven(f) == f.kind = "year"

\* minAge: the ternary of the object literal; the delete that follows it
\* removes the field exactly when the ternary produced undefined.
MinAgeOf(p) ==
  IF YearGiven(p.minYear)
  THEN Present(Max(0, currentYear - p.minYear.year))
  ELSE Absent
\* maxAge: the same with Math.max(1, ...); the extra test maxAge < 1 of the
\* delete never holds.
MaxAgeOf(p) ==
  IF YearGiven(p.maxYear)
  THEN Present(Max(1, currentYear - p.maxYear.year))
  ELSE Absent

\* The age fields of the request built from the search parameters.
ConvertSearchParamsToApi(p) ==
  [returned |-> TRUE, minAge |-> MinAgeOf(p), maxAge |-> MaxAgeOf(p)]

InitAges ==
  /\ BackendIdle /\ SseIdle /\ DriversIdle
  /\ apiVehicle = NoRecord /\ vehicle = NoVehicle
  /\ searchParams \in [minYear : YearFieldChoices, maxYear : YearFieldChoices]
  /\ apiRequest = NoRequest

\* One call of convertSearchParamsToApi(searchParams).
ConvertParams ==
  /\ ~apiRequest.returned
  /\ apiRequest' = ConvertSearchParamsToApi(searchParams)
  /\ UNCHANGED << BackendVars, sseVars, driverVars, apiVehicle, vehicle,
                  searchParams >>

SpecAges == InitAges /\ [][ConvertParams]_vars

\* ===================================================== ScrapeSSEApiService
\* (src/frontend/src/services/api/scrapeSSEApi.ts)
\* The response body is a sequence of atoms: the line of an event is its two
\* halves << e, 1 >> ("data: " and the start of the JSON text) and << e, 2 >>
\* (the rest of it), then "\n" and the blank line that ends an SSE event.
NL == << "\n", 0 >>
EventLine(e) == << << e, 1 >>, << e, 2 >>, NL, NL >>

\* The event types handleSSEEvent knows; "bad" is a data line whose text is
\* not valid JSON.
EventTypes == { "connected", "progress", "complete", "error" }
BodyLines == { "progress", "bad" }

RECURSIVE Flatten(_)
Flatten(ls) ==
  IF ls = << >> THEN << >> ELSE EventLine(Head(ls)) \o Flatten(Tail(ls))

\* The streams explored: the connected line, up to MaxBody body lines and
\* then a complete line, an error line or nothing; the stream may end
\* without the "\n" and the blank line after its last line.
Bodies == UNION { [1 .. n -> BodyLines] : n \in 0 .. MaxBody }
Endings == { << >>, << "complete" >>, << "error" >> }
FullStreams ==
  { Flatten(<< "connected" >> \o b \o e) : b \in Bodies, e \in Endings }
StreamChoices ==
  UNION { { st, SubSeq(st, 1, Len(st) - 2) } : st \in FullStreams }

\* String.prototype.split("\n") over a sequence of atoms.
RECURSIVE SplitLines(_)
SplitLines(s) ==
  IF \A i \in 1 .. Len(s) : s[i] # NL THEN << s >>
  ELSE LET i == CHOOSE j \in 1 .. Len(s) :
                  s[j] = NL /\ \A h \in 1 .. j - 1 : s[h] # NL
       IN  << SubSeq(s, 1, i - 1) >> \o SplitLines(SubSeq(s, i + 1, Len(s)))

\* line.startsWith("data: ")
StartsWithData(line) == Len(line) >= 1 /\ line[1][2] = 1
\* JSON.parse(line.slice(6)) returns normally
ParsesAsJson(line) ==
  /\ Len(line) = 2
  /\ line[1][1] = line[2][1] /\ line[2][2] = 2
  /\ line[1][1] # "bad"
\* eventData.type
TypeOf(line) == line[1][1]

\* handleSSEEvent: the callback invoked for an event type.
CallbackOf(type) ==
  CASE type = "connected" -> "onConnected"
    [] type = "progress" -> "onProgress"
    [] type = "complete" -> "onComplete"
    [] type = "error" -> "onError"

\* A for-of loop over the lines of a chunk is running: nothing else runs
\* until it has ended.
Busy == \E k \in SessionIds : sessions[k].pc = "dispatching"

\* stopScraping(): abort the current controller, if any, and forget it.
\* abort() errors the response body: what was not read yet is discarded.
AbortCurrent(S, ac) ==
  IF ac = 0 THEN S
  ELSE [S EXCEPT ![ac].aborted = TRUE, ![ac].stream = << >>,
                 ![ac].body = << >>]
TraceAbort(tr, ac) ==
  IF ac = 0 THEN tr ELSE Append(tr, [session |-> ac, call |-> "abort"])

\* The next startScraping call.
Unused == { k \in SessionIds : sessions[k].pc = "unused" }
NewSession == CHOOSE k \in Unused : \A j \in Unused : k <= j

\* startScraping up to its await of fetch: stopScraping(), a new controller,
\* the request is sent.
Started(S, ac, k) ==
  [AbortCurrent(S, ac) EXCEPT ![k] = [NoSession EXCEPT !.pc = "fetching"]]

\* startScraping is called (from an event handler of the page).
StartScraping ==
  /\ ~Busy
  /\ Unused # {}
  /\ sessions' = Started(sessions, abortController, NewSession)
  /\ trace' = TraceAbort(trace, abortController)
  /\ abortController' = NewSession
  /\ UNCHANGED << BackendVars, normVars, driverVars >>

\* stopScraping is called (from an event handler of the page).
StopScraping ==
  /\ ~Busy
  /\ abortController # 0
  /\ sessions' = AbortCurrent(sessions, abortController)
  /\ trace' = TraceAbort(trace, abortController)
  /\ abortController' = 0
  /\ UNCHANGED << BackendVars, normVars, driverVars >>

\* A call of startScraping that has returned: its locals are gone.
Settled(k) == [NoSession EXCEPT !.pc = "settled", !.aborted = sessions[k].aborted]

\* startScraping returns through its catch block: silently for an
\* AbortError, through options.onError for everything else.
Caught(k, isAbort) ==
  /\ sessions' = [sessions EXCEPT ![k] = Settled(k)]
  /\ trace' = IF isAbort THEN trace
              ELSE Append(trace, [session |-> k, call |-> "onError"])

\* await fetch(...) settles: rejected with AbortError when the signal was
\* aborted, rejected or not ok otherwise, or a response whose body the
\* reader is taken from.
FetchSettles(k) ==
  /\ ~Busy
  /\ sessions[k].pc = "fetching"
  /\ IF sessions[k].aborted
     THEN Caught(k, TRUE)
     ELSE \/ Caught(k, FALSE)
          \/ /\ \E st \in StreamChoices :
                  sessions' = [sessions EXCEPT ![k].pc = "reading",
                                               ![k].body = st,
                                               ![k].stream = st]
             /\ UNCHANGED trace
  /\ UNCHANGED << BackendVars, normVars, driverVars, abortController >>

\* The body of the read loop for a chunk of the next n atoms of the stream:
\* buffer += chunk; lines = buffer.split("\n"); buffer = lines.pop() || "".
\* Bug variant: the incomplete last line is not kept for the next chunk.
AfterChunk_DropsPartial(c, n) ==
  LET parts == SplitLines(c.buffer \o SubSeq(c.stream, 1, n))
      lines == SubSeq(parts, 1, Len(parts) - 1)
  IN  [c EXCEPT !.stream = SubSeq(c.stream, n + 1, Len(c.stream)),
                !.buffer = << >>,
                !.lines = lines,
                !.pc = IF lines = << >> THEN "reading" ELSE "dispatching"]
AfterChunk(c, n) ==
  LET parts == SplitLines(c.buffer \o SubSeq(c.stream, 1, n))
      lines == SubSeq(parts, 1, Len(parts) - 1)
  IN  [c EXCEPT !.stream = SubSeq(c.stream, n + 1, Len(c.stream)),
                !.buffer = parts[Len(parts)],
                !.lines = lines,
                !.pc = IF lines = << >> THEN "reading" ELSE "dispatching"]

\* await reader.read() settles: rejected with AbortError when the signal was
\* aborted; otherwise the next chunk, the end of the stream, or a network
\* error.
ReadSettles(k) ==
  /\ ~Busy
  /\ sessions[k].pc = "reading"
  /\ IF sessions[k].aborted
     THEN Caught(k, TRUE)
     ELSE \/ Caught(k, FALSE)
          \/ /\ sessions[k].stream = << >>
             /\ sessions' = [sessions EXCEPT ![k] = Settled(k)]
             /\ UNCHANGED trace
          \/ /\ \E n \in 1 .. Len(sessions[k].stream) :
                  sessions' = [sessions EXCEPT ![k] = AfterChunk(@, n)]
             /\ UNCHANGED trace
  /\ UNCHANGED << BackendVars, normVars, driverVars, abortController >>

\* What the body of a callback does with the service.
CallbackActs == { "nothing", "stop", "start" }

\* One iteration of for (const line of lines): a data line that parses is
\* handed to handleSSEEvent, which invokes the callback of its type; the
\* callback may call stopScraping or startScraping before it returns.
\* Every other line is skipped.  After the last line the loop of
\* handleSSEStream goes back to reader.read().
DispatchWith(k, acts) ==
  /\ sessions[k].pc = "dispatching"
  /\ LET line == Head(sessions[k].lines)
         rest == Tail(sessions[k].lines)
         after == [sessions EXCEPT
                     ![k].lines = rest,
                     ![k].pc = IF rest = << >> THEN "reading"
                                               ELSE "dispatching"]
         called == Append(trace, [session |-> k,
                                  call |-> CallbackOf(TypeOf(line))])
     IN  IF StartsWithData(line) /\ ParsesAsJson(line)
            /\ TypeOf(line) \in EventTypes
         THEN \E act \in acts :
                CASE act = "nothing" ->
                       /\ sessions' = after
                       /\ trace' = called
                       /\ UNCHANGED abortController
                  [] act = "stop" ->
                       /\ abortController # 0
                       /\ sessions' = AbortCurrent(after, abortController)
                       /\ trace' = TraceAbort(called, abortController)
                       /\ abortController' = 0
                  [] act = "start" ->
                       /\ Unused # {}
                       /\ sessions' = Started(after, abortController, NewSession)
                       /\ trace' = TraceAbort(called, abortController)
                       /\ abortController' = NewSession
         ELSE /\ sessions' = after
              /\ UNCHANGED << trace, abortController >>
  /\ UNCHANGED << BackendVars, normVars, driverVars >>

Dispatch(k) == DispatchWith(k, CallbackActs)

\* isScraping(): this.abortController !== null
isScraping == abortController # 0

InitSSE == BackendIdle /\ NormIdle /\ SseIdle /\ DriversIdle

NextSSE ==
  \/ StartScraping
  \/ StopScraping
  \/ \E k \in SessionIds : FetchSettles(k)
  \/ \E k \in SessionIds : ReadSettles(k)
  \/ \E k \in SessionIds : Dispatch(k)

SpecSSE == InitSSE /\ [][NextSSE]_vars

\* ------------------------------------------- one stream, read chunk by chunk
\* One call of startScraping whose callbacks leave the service alone; nobody
\* calls stopScraping.
FirstStart == Unused = SessionIds /\ StartScraping
DispatchQuiet(k) == DispatchWith(k, { "nothing" })

NextStream ==
  \/ FirstStart
  \/ \E k \in SessionIds : FetchSettles(k)
  \/ \E k \in SessionIds : ReadSettles(k)
  \/ \E k \in SessionIds : DispatchQuiet(k)

SpecStream == InitSSE /\ [][NextStream]_vars

\* ================================================ Disposal Network driver
\* (src/unnamed/part_005, disposalnetworkConfig): applyFilters and extractCars
\* of the job of one site, followed await by await inside processSite.
\* The site is the last registered one and runs alone in the direct group.
DisposalSite == MaxSites

\* const maxPages = 3
maxPages == 3
\* data.vehicles.length < 25: a page with fewer vehicles is the last one
pageFull == 25
\* The sizes of data.vehicles explored.
VehicleCounts == { 0, 1, pageFull }

\* data.vehicles of the response that carries results page r.
Vehicles(r, n) == [k \in 1 .. n |-> << r, k >>]
\* allCarData.map(...): the standardized car of a vehicle names its source.
FinalCarData(vs) == [k \in 1 .. Len(vs) |-> << DisposalSite >> \o vs[k]]

\* scrapeAllSites has launched both groups and the job of the site has
\* logged in and reached its applyFilters call; params is the search.
InitDisposal ==
  /\ useProxies = [s \in Sites |-> s # DisposalSite]
  /\ concurrencyLimit \in LimitChoices
  /\ hasOnProgress = TRUE
  /\ mainPc = "awaitGroups"
  /\ env = [g \in Groups |-> "ready"]
  /\ closeCalls = [g \in Groups |-> 0]
  /\ runner = [g \in Groups |-> LoopRunner(g, 0, << >>)]
  /\ jobPc = [StartedPc([s \in Sites |-> "pending"],
                        LoopStarts("proxy", 0) \cup LoopStarts("direct", 0))
                EXCEPT ![DisposalSite] = "applyFilters"]
  /\ jobValue = [s \in Sites |-> NullValue]
  /\ page = [s \in Sites |-> IF s = DisposalSite THEN "open" ELSE "none"]
  /\ currentSiteIndex = 0
  /\ progress = << >>
  /\ allCarData = << >>
  /\ siteCredentials = [s \in Sites |-> "open"]
  /\ contextRoutes = [g \in Groups |-> {}]
  /\ NormIdle /\ SseIdle
  /\ cartotrade = CtIdle
  /\ \E mk, md, mm, pa \in BOOLEAN :
       disposal = [DnIdle EXCEPT !.pc = "af:openSearch", !.make = mk,
                                 !.model = md, !.maxMileage = mm,
                                 !.priceAge = pa]

DnFrame ==
  << normVars, sseVars, cartotrade, useProxies, concurrencyLimit,
     hasOnProgress, mainPc, env, closeCalls, runner, allCarData,
     siteCredentials, contextRoutes, page >>

\* The driver goes on inside the function it is in.
DnGoesOn(d) ==
  /\ disposal' = d
  /\ UNCHANGED << jobPc, jobValue, currentSiteIndex, progress >>

\* An await outside every try block of the driver rejects: the error
\* reaches the catch block of processSite.
DnThrows ==
  /\ disposal' = [disposal EXCEPT !.pc = "done"]
  /\ CatchError(DisposalSite)
  /\ UNCHANGED progress

\* applyFilters returns; processSite goes on to call extractCars.
DnApplyFiltersReturns(d) ==
  /\ disposal' = [d EXCEPT !.pc = "ec:entry"]
  /\ jobPc' = [jobPc EXCEPT ![DisposalSite] = "extractCars"]
  /\ UNCHANGED << jobValue, currentSiteIndex, progress >>

\* extractCars returns list; processSite runs the tail of its try block.
DnExtractReturns(d, list) ==
  /\ disposal' = [d EXCEPT !.pc = "done"]
  /\ FinishTry(DisposalSite, [isNull |-> FALSE, cars |-> list])

\* STEP 2: the initial Search click and the waits after it.
DnOpenSearch ==
  /\ disposal.pc = "af:openSearch"
  /\ \E ok \in BOOLEAN :
       IF ok THEN DnGoesOn([disposal EXCEPT !.pc = "af:make"]) ELSE DnThrows
  /\ UNCHANGED DnFrame

\* STEP 3: the make interface is opened; a requested make is checked when
\* its label exists, otherwise the flag is cleared and applyFilters returns.
DnMake ==
  /\ disposal.pc = "af:make"
  /\ \E ok \in BOOLEAN :
       IF ~ok THEN DnThrows
       ELSE IF disposal.make
            THEN \E makeLabel \in BOOLEAN :
                   IF makeLabel
                   THEN DnGoesOn([disposal EXCEPT !.makeApplied = "true",
                                                  !.pc = "af:model"])
                   ELSE DnApplyFiltersReturns(
                          [disposal EXCEPT !.makeApplied = "false"])
            ELSE DnGoesOn([disposal EXCEPT !.makeApplied = "true",
                                           !.pc = "af:model"])
  /\ UNCHANGED DnFrame

\* STEP 4: with a make and a model requested the matching model labels are
\* checked, or the flag is cleared and applyFilters returns.
DnModel ==
  /\ disposal.pc = "af:model"
  /\ IF disposal.make /\ disposal.model
     THEN \E ok \in BOOLEAN :
            IF ~ok THEN DnThrows
            ELSE \E modelLabels \in BOOLEAN :
                   IF modelLabels
                   THEN DnGoesOn([disposal EXCEPT !.modelApplied = "true",
                                                  !.pc = "af:mileage"])
                   ELSE DnApplyFiltersReturns(
                          [disposal EXCEPT !.modelApplied = "false"])
     ELSE DnGoesOn([disposal EXCEPT !.modelApplied = "true",
                                    !.pc = "af:mileage"])
  /\ UNCHANGED DnFrame

\* A UI filter step inside its own try/catch: an option is selected, no
\* suitable option is enabled (the flag is set and applyFilters returns), or
\* an error is caught and logged.
UiFilterOutcomes == { "selected", "unavailable", "error" }
DnUiFilter(requested, nextPc) ==
  IF requested
  THEN \E out \in UiFilterOutcomes :
         IF out = "unavailable"
         THEN DnApplyFiltersReturns([disposal EXCEPT !.noResults = "true"])
         ELSE DnGoesOn([disposal EXCEPT !.pc = nextPc])
  ELSE DnGoesOn([disposal EXCEPT !.pc = nextPc])

\* STEP 4.5: the mileage filter.
DnMileage ==
  /\ disposal.pc = "af:mileage"
  /\ DnUiFilter(disposal.maxMileage, "af:search")
  /\ UNCHANGED DnFrame

\* STEP 5: the search is executed.
DnSearch ==
  /\ disposal.pc = "af:search"
  /\ \E ok \in BOOLEAN :
       IF ok THEN DnGoesOn([disposal EXCEPT !.pc = "af:priceAge"])
       ELSE DnThrows
  /\ UNCHANGED DnFrame

\* STEP 5.1: the price and age filters.
DnPriceAge ==
  /\ disposal.pc = "af:priceAge"
  /\ DnUiFilter(disposal.priceAge, "af:final")
  /\ UNCHANGED DnFrame

\* STEPS 5.5 to 7: the last waits and the colour filter; without a captured
\* search response applyFilters throws, otherwise the last one is stored on
\* the page.  The stored response carries results page 1.
DnFinal ==
  /\ disposal.pc = "af:final"
  /\ \E ok, captured \in BOOLEAN :
       IF ok /\ captured
       THEN \E n \in VehicleCounts :
              DnApplyFiltersReturns([disposal EXCEPT !.lastResponse = << 1, n >>])
       ELSE DnThrows
  /\ UNCHANGED DnFrame

\* The end of one iteration of the page loop that neither broke nor threw.
DnNextIteration(d) ==
  IF d.pageNum + 1 <= maxPages
  THEN DnGoesOn([d EXCEPT !.pageNum = @ + 1, !.pc = "ec:nextPage"])
  ELSE DnExtractReturns(d, FinalCarData(d.allCarData))

\* extractCars up to its first await: the three flag checks return [];
\* otherwise the loop starts with the stored response of page 1 (its absence
\* throws inside the try of the loop, which breaks).
DnExtractEntry ==
  /\ disposal.pc = "ec:entry"
  /\ jobPc[DisposalSite] = "extractCars"
  /\ IF \/ disposal.noResults = "true"
        \/ disposal.makeApplied = "false"
        \/ disposal.modelApplied = "false"
     THEN DnExtractReturns(disposal, << >>)
     ELSE IF disposal.lastResponse = << >>
          THEN DnExtractReturns([disposal EXCEPT !.pageNum = 1],
                                FinalCarData(disposal.allCarData))
          ELSE DnGoesOn([disposal EXCEPT
                           !.pageNum = 1,
                           !.allResponses = << disposal.lastResponse >>,
                           !.pc = "ec:json"])
  /\ UNCHANGED DnFrame

\* await latestResponse.json() settles: it throws (caught: break), the data
\* has no vehicles array (continue), or its vehicles are pushed and a page
\* that is not full ends the loop.
DnJsonDone ==
  /\ disposal.pc = "ec:json"
  /\ LET latestResponse == disposal.allResponses[Len(disposal.allResponses)]
         n == latestResponse[2]
         d == [disposal EXCEPT
                 !.allCarData = @ \o Vehicles(latestResponse[1], n)]
     IN  \/ DnExtractReturns(disposal, FinalCarData(disposal.allCarData))
         \/ DnNextIteration(disposal)
         \/ IF n < pageFull
            THEN DnExtractReturns(d, FinalCarData(d.allCarData))
            ELSE DnNextIteration(d)
  /\ UNCHANGED DnFrame

\* The next-page step of pages 2 and 3 settles: an await throws (caught:
\* break), there is no button (break), or the button is clicked and the
\* listener may have captured the response of the new page by then.
DnNextPageDone ==
  /\ disposal.pc = "ec:nextPage"
  /\ \/ DnExtractReturns(disposal, FinalCarData(disposal.allCarData))
     \/ \E captured \in BOOLEAN, n \in VehicleCounts :
          DnGoesOn([disposal EXCEPT
                      !.allResponses = IF captured
                                       THEN Append(@, << disposal.pageNum, n >>)
                                       ELSE @,
                      !.pc = "ec:json"])
  /\ UNCHANGED DnFrame

NextDisposal ==
  \/ DnOpenSearch
  \/ DnMake
  \/ DnModel
  \/ DnMileage
  \/ DnSearch
  \/ DnPriceAge
  \/ DnFinal
  \/ DnExtractEntry
  \/ DnJsonDone
  \/ DnNextPageDone
  \/ PageCloseDone(DisposalSite)

SpecDisposal == InitDisposal /\ [][NextDisposal]_vars

\* ======================================================= CarToTrade driver
\* (src/unnamed/part_005, cartotradeConfig): one call of extractCars on a
\* page on which applyFilters has run.
InitCarToTrade ==
  /\ BackendIdle /\ NormIdle /\ SseIdle
  /\ disposal = DnIdle
  /\ \E flag \in { "undefined", "true", "false" } :
       cartotrade = [CtIdle EXCEPT !.pc = "called", !.searchExecuted = flag]

CtFrame == << BackendVars, normVars, sseVars, disposal >>

\* The cards found on results page p, as far as their fields could be read.
CardsOf(p, n) == [k \in 1 .. n |-> << p, k >>]

\* while (hasMorePages): the next pass, or return allCarData.
CtLoop(c) == [c EXCEPT !.pc = IF c.hasMorePages THEN "load" ELSE "returned"]

\* extractCars up to its first await: _cartotradeSearchExecuted === false
\* returns []; otherwise the page loop is entered.
CtEntry ==
  /\ cartotrade.pc = "called"
  /\ cartotrade' = IF cartotrade.searchExecuted = "false"
                   THEN [cartotrade EXCEPT !.pc = "returned"]
                   ELSE CtLoop(cartotrade)
  /\ UNCHANGED CtFrame

\* The head of a pass settles: waitForLoadState, waitForTimeout and
\* page.$$(".panel") are awaited outside every try block, so a rejection
\* leaves extractCars; otherwise the cards that can be read are pushed (a
\* card that cannot is skipped by its own try/catch).
CtLoadDone ==
  /\ cartotrade.pc = "load"
  /\ \E ok \in BOOLEAN :
       IF ok
       THEN \E n \in 0 .. MaxCars :
              cartotrade' =
                [cartotrade EXCEPT
                   !.allCarData = @ \o CardsOf(cartotrade.currentPage + 1, n),
                   !.pc = "pagination"]
       ELSE cartotrade' = [cartotrade EXCEPT !.pc = "raised"]
  /\ UNCHANGED CtFrame

\* The pagination block (inside try/catch) settles: the next page has been
\* opened, or there is none, or an error was caught; the last two end the
\* loop.
CtPaginationDone ==
  /\ cartotrade.pc = "pagination"
  /\ \/ /\ cartotrade.currentPage + 1 < MaxResultPages
        /\ cartotrade' = CtLoop([cartotrade EXCEPT !.currentPage = @ + 1])
     \/ cartotrade' = CtLoop([cartotrade EXCEPT !.hasMorePages = FALSE])
  /\ UNCHANGED CtFrame

NextCarToTrade == CtEntry \/ CtLoadDone \/ CtPaginationDone

SpecCarToTrade == InitCarToTrade /\ [][NextCarToTrade]_vars

\* =============================================================== claims
\* A site job that has started and is suspended on one of its awaits.
Running(s) == jobPc[s] \in AwaitPcs
RunningIn(g) == { s \in Sites : GroupOf(s) = g /\ Running(s) }

\* runInBatches of group g has returned its results array.
RunInBatchesReturned(g) ==
  GroupIsRun(g) /\ runner[g].pc \in { "awaitClose", "resolved", "closeRejected" }

\* scrapeAllSites has settled and nothing of the run is still pending.
RunOver ==
  /\ mainPc \in { "resolved", "rejected" }
  /\ \A s \in Sites : ~Running(s)
  /\ \A g \in Groups : /\ runner[g].pc \notin { "awaitBatch", "awaitClose" }
                       /\ env[g] \notin { "initializing", "closing" }

\* C1: runInBatches never rejects and returns exactly one entry per
\* submitted site job, in submission order, however many jobs fail.
C1_OneResultPerJob ==
  \A g \in Groups :
    /\ runner[g].pc # "batchRejected"
    /\ RunInBatchesReturned(g) =>
         /\ Len(runner[g].results) = Len(GroupSites(g))
         /\ \A k \in 1 .. Len(GroupSites(g)) :
              runner[g].results[k] = jobValue[GroupSites(g)[k]]

\* C2: a failing site job never makes scrapeAllSites throw: the run is
\* rejected only for a failure of an environment, never of a job.
C2_JobFailureNeverAborts ==
  mainPc = "rejected" =>
    \E g \in Groups : env[g] \in { "initFailed", "closeFailed" }

ChunkIndex(g, p) == (p - 1) \div BatchSize(g)

\* C4: within a group no job of a later chunk has left "pending" before
\* every job of each earlier chunk has resolved.
C4_ChunkOrder ==
  \A g \in Groups :
    \A p, q \in 1 .. Len(GroupSites(g)) :
      ( /\ ChunkIndex(g, p) < ChunkIndex(g, q)
        /\ jobPc[GroupSites(g)[q]] # "pending" )
      => jobPc[GroupSites(g)[p]] = "resolved"

\* A job of the second chunk is in flight after a two-job first chunk in
\* which one job failed and the other returned cars.
C4_Witness ==
  \E g \in Groups :
    /\ BatchSize(g) >= 2
    /\ \E q \in 1 .. Len(GroupSites(g)) :
         /\ ChunkIndex(g, q) = 1
         /\ Running(GroupSites(g)[q])
    /\ \E p, r \in 1 .. Len(GroupSites(g)) :
         /\ ChunkIndex(g, p) = 0 /\ ChunkIndex(g, r) = 0
         /\ jobValue[GroupSites(g)[p]].isNull
         /\ ~jobValue[GroupSites(g)[r]].isNull

\* Number of onProgress invocations made for site s.
ProgressCount(s) ==
  Cardinality({ k \in DOMAIN progress : progress[k].siteName = s })

\* C5: with a progress callback, every finished site job - success, empty
\* or failed - has exactly one progress event, so a completed run has
\* totalSites progress events.
C5_ProgressPerFinishedJob ==
  hasOnProgress =>
    /\ \A s \in Sites : jobPc[s] = "resolved" => ProgressCount(s) = 1
    /\ mainPc = "resolved" => Len(progress) = totalSites

\* The record lists of the jobs of a sequence of sites, concatenated.
RECURSIVE ConcatJobs(_)
ConcatJobs(siteSeq) ==
  IF siteSeq = << >> THEN << >>
  ELSE jobValue[Head(siteSeq)].cars \o ConcatJobs(Tail(siteSeq))

RECURSIVE SumProgress(_)
SumProgress(events) ==
  IF events = << >> THEN 0
  ELSE Len(Head(events).cars) + SumProgress(Tail(events))

C7_CloseExactlyOnce ==
  \A g \in Groups :
    /\ closeCalls[g] <= 1
    /\ closeCalls[g] >= 1 =>
         \A s \in Sites : GroupOf(s) = g =>
           jobPc[s] = "resolved" /\ page[s] = "closed"
    /\ mainPc = "resolved" => closeCalls[g] = 1

\* C8: on every exit path, once the run is over every environment that
\* was initialised has had close() called on it.
C8_InitializedEnvsClosed ==
  RunOver => \A g \in Groups : env[g] = "initFailed" \/ closeCalls[g] >= 1

\* C9: when exactly one environment fails to initialise, the run still
\* completes: no job is left pending and scrapeAllSites resolves.
C9_InitFailureIsolated ==
  ( /\ RunOver
    /\ \E g \in Groups : env[g] = "initFailed"
    /\ \E g \in Groups : env[g] \in { "ready", "closed" } )
  => /\ mainPc = "resolved"
     /\ \A s \in Sites : jobPc[s] = "resolved"

\* C10: the groups are scheduled independently: whenever the jobs of the
\* chunk a group is waiting for have all resolved, that group's
\* continuation (next chunk, or close() of its environment after the last
\* chunk) can run whatever the other group is doing; and once a group's
\* loop has ended close() has been called on its environment.
C10_GroupsIndependent ==
  \A g \in Groups :
    /\ ( /\ runner[g].pc = "awaitBatch"
         /\ \A s \in BatchOf(g, runner[g].i) : jobPc[s] = "resolved" )
       => ENABLED BatchDone(g)
    /\ RunInBatchesReturned(g) => closeCalls[g] = 1

\* One group's environment has been closed while a job of the other group
\* is still running.
C10_Witness ==
  \E g \in Groups :
    /\ env[g] = "closed"
    /\ \E s \in Sites : GroupOf(s) # g /\ Running(s)

\* C11: every page that processSite created has been closed by the time
\* processSite has returned or thrown, whatever the outcome.
C11_PageClosedOnReturn ==
  \A s \in Sites :
    (jobPc[s] \in { "resolved", "rejected" } /\ page[s] # "none")
      => page[s] = "closed"

\* Position of a job in the one pass processSite makes over its steps.
Rank(pc) ==
  CASE pc = "pending" -> 0
    [] pc = "newPage" -> 1
    [] pc = "blocking" -> 2
    [] pc = "ctxRoute" -> 3
    [] pc = "login" -> 4
    [] pc = "waitLoad" -> 5
    [] pc = "goto" -> 6
    [] pc = "applyFilters" -> 7
    [] pc = "extractCars" -> 8
    [] pc = "pageClose" -> 9
    [] pc \in { "resolved", "rejected" } -> 10

\* C12: a site job only ever moves forward through login, search-URL
\* navigation, applyFilters, extractCars: no step is invoked twice, none
\* after a later one or after the job failed, and a settled job is never
\* started again.
C12_StepOrder ==
  [][ \A s \in Sites :
        jobPc'[s] # jobPc[s] => Rank(jobPc'[s]) > Rank(jobPc[s]) ]_vars

\* A completed run in which one job went through every step and returned
\* cars and another job failed.
C12_Witness ==
  /\ mainPc = "resolved"
  /\ \E s, u \in Sites : /\ Len(jobValue[s].cars) > 0
                         /\ jobValue[u].isNull

\* The steps of the site driver that processSite invokes.
DriverPcs == { "login", "waitLoad", "goto", "applyFilters", "extractCars" }

\* A job of a site without usable credentials is never in a driver step, has
\* no records and no progress event, and resolves once its page is closed.
C13_NoDriverStep ==
  \A s \in Sites :
    siteCredentials[s] = "missing" =>
      /\ jobPc[s] \notin DriverPcs
      /\ jobValue[s].isNull
      /\ ProgressCount(s) = 0
      /\ page[s] = "closed" => jobPc[s] = "resolved"

\* The step in which the credential check of s fails touches no other job,
\* no group runner and no environment.
C13_OthersUntouched ==
  \A s \in Sites :
    ( /\ siteCredentials[s] = "missing"
      /\ jobPc[s] \in { "blocking", "ctxRoute" }
      /\ jobPc'[s] = "pageClose" )
    => /\ \A u \in Sites \ { s } : /\ jobPc'[u] = jobPc[u]
                                    /\ jobValue'[u] = jobValue[u]
                                    /\ page'[u] = page[u]
       /\ runner' = runner /\ env' = env /\ mainPc' = mainPc
       /\ progress' = progress

\* C13: a site without a credentials entry, or with an empty username or
\* password, fails without login, search-URL navigation, applyFilters or
\* extractCars being invoked, and the failure leaves the other jobs alone.
C13_MissingCredentials == []C13_NoDriverStep /\ [][C13_OthersUntouched]_vars

\* A completed run in which the site without credentials resolved with
\* nothing while a job of the same chunk and a job of a later chunk of its
\* group returned cars.
C13_Witness ==
  /\ mainPc = "resolved"
  /\ \E g \in Groups :
       \E p, q, r \in 1 .. Len(GroupSites(g)) :
         /\ p # q
         /\ ChunkIndex(g, p) = ChunkIndex(g, q)
         /\ ChunkIndex(g, r) > ChunkIndex(g, p)
         /\ siteCredentials[GroupSites(g)[p]] = "missing"
         /\ jobPc[GroupSites(g)[p]] = "resolved"
         /\ Len(jobValue[GroupSites(g)[q]].cars) > 0
         /\ Len(jobValue[GroupSites(g)[r]].cars) > 0

\* applyFilters of the Disposal Network driver returned early because the
\* make, the model or a filter option could not be selected.
Unsatisfiable ==
  \/ disposal.noResults = "true"
  \/ disposal.makeApplied = "false"
  \/ disposal.modelApplied = "false"

\* C14: after such an early return no results page is read, extractCars
\* returns an empty list, the site gets one progress event with zero
\* records, and the job returns the empty list, not null.
C14_UnsatisfiableIsEmptyResult ==
  Unsatisfiable =>
    /\ disposal.pc \in { "ec:entry", "done" }
    /\ disposal.pc = "done" =>
         /\ jobValue[DisposalSite] = [isNull |-> FALSE, cars |-> << >>]
         /\ ProgressCount(DisposalSite) = 1
         /\ \A k \in DOMAIN progress : progress[k].cars = << >>
         /\ page[DisposalSite] = "closed" => jobPc[DisposalSite] = "resolved"

\* The job has resolved after a filter option was not available although
\* the requested make and model had been selected.
C14_Witness ==
  /\ disposal.noResults = "true"
  /\ disposal.make /\ disposal.model
  /\ disposal.makeApplied = "true" /\ disposal.modelApplied = "true"
  /\ jobPc[DisposalSite] = "resolved"
  /\ Len(progress) = 1

\* C15: extractCars does not raise once a results page has been extracted:
\* a later page that fails ends the loop and what was accumulated is
\* returned.
C15_PartialPagesReturned ==
  cartotrade.pc = "raised" => cartotrade.currentPage = 0

\* C16: the jobs work in pairwise different browser contexts, and the only
\* routes on the context of a job's open page are the job's own.
C16_IsolatedContexts ==
  /\ \A s, u \in Sites :
       (s # u /\ Running(s) /\ Running(u)) => ContextOf(s) # ContextOf(u)
  /\ \A s \in Sites :
       page[s] = "open" => contextRoutes[ContextOf(s)] \subseteq { s }

\* C17: with a progress callback, the progress event of a site has been
\* emitted as soon as its extraction has produced its records: whatever the
\* other jobs of its chunk, the later chunks and scrapeAllSites are doing.
C17_ProgressNotBuffered ==
  hasOnProgress =>
    \A s \in Sites : ~jobValue[s].isNull => ProgressCount(s) = 1

\* A site's event is out while another job of its chunk is still running,
\* a later chunk of its group has not started and scrapeAllSites is still
\* waiting for its groups.
C17_Witness ==
  /\ mainPc = "awaitGroups"
  /\ \E g \in Groups :
       \E p, q, r \in 1 .. Len(GroupSites(g)) :
         /\ p # q
         /\ ChunkIndex(g, p) = ChunkIndex(g, q)
         /\ ChunkIndex(g, r) > ChunkIndex(g, p)
         /\ ProgressCount(GroupSites(g)[p]) = 1
         /\ Running(GroupSites(g)[q])
         /\ jobPc[GroupSites(g)[r]] = "pending"

\* Positions of the trace at which a callback of session k was invoked.
CallsOf(k, name) ==
  { i \in DOMAIN trace : trace[i].session = k /\ trace[i].call = name }
Callbacks == { "onConnected", "onProgress", "onComplete", "onError" }

\* C18: once the controller of a session has been aborted - by stopScraping
\* or by the next startScraping - no callback of that session is invoked
\* any more, the onError callback included.
C18_NoCallbackAfterCancel ==
  \A k \in SessionIds :
    \A i \in CallsOf(k, "abort") :
      \A j \in DOMAIN trace :
        (j > i /\ trace[j].session = k) => trace[j].call \notin Callbacks

\* C19: a session never gets both onComplete and onError, and no onProgress
\* after either of them.
C19_CompleteXorError ==
  \A k \in SessionIds :
    /\ CallsOf(k, "onComplete") = {} \/ CallsOf(k, "onError") = {}
    /\ \A i \in CallsOf(k, "onComplete") \cup CallsOf(k, "onError") :
         \A j \in CallsOf(k, "onProgress") : j < i

\* C20: the title of the converted vehicle is the first non-empty of title,
\* primaryVehicleDescription and make + " " + model of the raw record, and
\* "Unknown Vehicle" when none of the four fields is there.
NonEmpty(v) == v.kind = "string" /\ v.s # ""
C20_TitleFallbackChain ==
  vehicle.returned =>
    vehicle.title =
      IF NonEmpty(apiVehicle["title"]) THEN apiVehicle["title"]
      ELSE IF NonEmpty(apiVehicle["primaryVehicleDescription"])
           THEN apiVehicle["primaryVehicleDescription"]
      ELSE IF NonEmpty(apiVehicle["make"]) \/ NonEmpty(apiVehicle["model"])
           THEN Plus(Plus(apiVehicle["make"], Str(" ")), apiVehicle["model"])
      ELSE Str("Unknown Vehicle")

\* The first non-empty string of a priority list of raw fields, else the
\* fallback.
RECURSIVE FirstNonEmpty(_, _)
FirstNonEmpty(fields, fallback) ==
  IF fields = << >> THEN Str(fallback)
  ELSE IF NonEmpty(apiVehicle[Head(fields)]) THEN apiVehicle[Head(fields)]
       ELSE FirstNonEmpty(Tail(fields), fallback)

\* The fields of the vehicle that are never left out.
PopulatedFields ==
  { "id", "title", "price", "imageUrl", "location", "registration", "source",
    "url", "timestamp" }

\* C21: imageUrl, location, registration, source and url of the converted
\* vehicle are each the first non-empty candidate field of the raw record in
\* priority order, else the fixed fallback; every field except mileage is
\* populated; timestamp is the time of the conversion, not the raw record's.
C21_FieldResolution ==
  vehicle.returned =>
    /\ vehicle.imageUrl = FirstNonEmpty(<< "imageUrl", "image" >>,
                                        "https://via.placeholder.com/400")
    /\ vehicle.location =
         FirstNonEmpty(<< "location", "localSaleLocation", "dealer" >>, "Unknown")
    /\ vehicle.registration =
         FirstNonEmpty(<< "registration", "reg", "vrm" >>, "Unknown")
    /\ vehicle.source = FirstNonEmpty(<< "source", "website" >>, "Unknown Source")
    /\ vehicle.url = FirstNonEmpty(<< "url" >>, "#")
    /\ \A f \in PopulatedFields :
         vehicle[f] \notin { Undefined, Null, Str("") }
    /\ vehicle.timestamp = NormalizationTime

\* A record whose location is an empty string and whose sale location is
\* null was given the location of its dealer and the time of the conversion.
C21_Witness ==
  /\ vehicle.returned
  /\ apiVehicle["location"] = Str("")
  /\ apiVehicle["localSaleLocation"] = Null
  /\ vehicle.location = Str("dealer")
  /\ vehicle.timestamp = NormalizationTime

\* C22: once scrapeAllSites has resolved or rejected, no job of the run is
\* still running and onProgress is not invoked any more.
C22_NoProgressAfterSettle ==
  [][ (mainPc \in { "resolved", "rejected" }) =>
        (progress' = progress /\ \A s \in Sites : ~Running(s)) ]_vars

\* A startScraping call whose session has begun and has neither ended nor
\* been cancelled.
InProgress(k) ==
  sessions[k].pc \in { "fetching", "reading", "dispatching" } /\ ~sessions[k].aborted

\* C23: isScraping() is true exactly while a scraping session is in
\* progress: false before any start, true from startScraping until the
\* session ends, false after it has ended by a complete event, an error, the
\* end of the stream or stopScraping().
C23_IsScrapingWhileInProgress ==
  isScraping <=> \E k \in SessionIds : InProgress(k)

\* C24: for every setting of CONCURRENCY_LIMIT, negative ones included, the
\* loop index of runInBatches moves towards the end of the task list every
\* time a batch has been awaited, so that the loop ends and scrapeAllSites
\* returns.
C24_LoopIndexAdvances ==
  [][ \A g \in Groups :
        (runner[g].pc = "awaitBatch" /\ runner'[g].pc # "batchRejected"
         /\ runner'[g] # runner[g])
        => runner'[g].i > runner[g].i ]_vars

\* The job of the site of a progress event has left its try block.
PastTry(s) == jobPc[s] \in { "pageClose", "resolved", "rejected" }

\* C25: a progress callback that throws does not change the outcome of the
\* site job: the job still returns the records it extracted and passed to
\* the callback, and they are in the aggregate scrapeAllSites returns.
C25_ThrowingCallbackHarmless ==
  \A k \in DOMAIN progress :
    /\ PastTry(progress[k].siteName) =>
         jobValue[progress[k].siteName] =
           [isNull |-> FALSE, cars |-> progress[k].cars]
    /\ mainPc = "resolved" =>
         \A c \in DOMAIN progress[k].cars :
           \E a \in DOMAIN allCarData : allCarData[a] = progress[k].cars[c]

\* C26: the currentSite values of the progress events of a run are within
\* 1..totalSites and strictly increasing in emission order (hence pairwise
\* distinct), whichever group the jobs belong to; and when the run completes
\* currentSiteIndex equals totalSites.
C26_CurrentSiteIncreasing ==
  /\ \A k \in DOMAIN progress : progress[k].currentSite \in 1 .. totalSites
  /\ \A j, k \in DOMAIN progress :
       j < k => progress[j].currentSite < progress[k].currentSite
  /\ mainPc = "resolved" => currentSiteIndex = totalSites

\* A completed run with events from jobs of both groups, the first of them
\* emitted after another job had failed.
C26_Witness ==
  /\ mainPc = "resolved"
  /\ Len(progress) >= 2
  /\ progress[1].currentSite > 1
  /\ \E j, k \in DOMAIN progress :
       GroupOf(progress[j].siteName) # GroupOf(progress[k].siteName)

\* The terminal callbacks a session has had.
TerminalCalls(k) == CallsOf(k, "onComplete") \cup CallsOf(k, "onError")

\* C27: when startScraping has returned for a session that was not
\* cancelled, exactly one of onComplete and onError has been invoked for it,
\* also when the stream ended without a complete event or with a last line
\* that is not newline-terminated.
C27_OneTerminalCallback ==
  \A k \in SessionIds :
    (sessions[k].pc = "settled" /\ ~sessions[k].aborted)
      => Cardinality(TerminalCalls(k)) = 1

\* The callbacks a sequence of complete lines is dispatched to: the data
\* lines that parse, in order.
RECURSIVE EventsOfLines(_)
EventsOfLines(ls) ==
  IF ls = << >> THEN << >>
  ELSE (IF StartsWithData(Head(ls)) /\ ParsesAsJson(Head(ls))
           /\ TypeOf(Head(ls)) \in EventTypes
        THEN << CallbackOf(TypeOf(Head(ls))) >> ELSE << >>)
       \o EventsOfLines(Tail(ls))

\* The newline-terminated lines of a piece of the response body.
CompleteLines(s) == SubSeq(SplitLines(s), 1, Len(SplitLines(s)) - 1)

\* The callbacks invoked for session k so far, in order.
RECURSIVE CallbackSeq(_, _)
CallbackSeq(k, tr) ==
  IF tr = << >> THEN << >>
  ELSE (IF Head(tr).session = k /\ Head(tr).call \in Callbacks
        THEN << Head(tr).call >> ELSE << >>)
       \o CallbackSeq(k, Tail(tr))

\* C28: what handleSSEStream dispatches depends only on the bytes of the
\* response, not on their chunks: at every point of an uncancelled session
\* the callbacks invoked so far, followed by those of the lines still to be
\* dispatched and still to be read, are the callbacks of the
\* newline-terminated data lines of the whole body that parse, once each and
\* in stream order.
C28_ChunkingIrrelevant ==
  \A k \in SessionIds :
    (sessions[k].pc \in { "reading", "dispatching" } /\ ~sessions[k].aborted)
    => CallbackSeq(k, trace)
         \o EventsOfLines(sessions[k].lines)
         \o EventsOfLines(CompleteLines(sessions[k].buffer \o sessions[k].stream))
       = EventsOfLines(CompleteLines(sessions[k].body))

\* The whole body of a session has been read and dispatched: the line that
\* is not valid JSON was skipped and the complete line after it dispatched.
C28_Witness ==
  \E k \in SessionIds :
    /\ sessions[k].pc = "reading" /\ ~sessions[k].aborted
    /\ sessions[k].stream = << >>
    /\ sessions[k].body = Flatten(<< "connected", "bad", "complete" >>)
    /\ CallbackSeq(k, trace) = << "onConnected", "onComplete" >>

\* C29: the request's age range is consistent with the year bounds: with
\* both years given and minYear <= maxYear, minAge <= maxAge; minAge and
\* maxAge are present only if their year was given, and are never negative.
C29_AgeRangeConsistent ==
  apiRequest.returned =>
    /\ ( /\ YearGiven(searchParams.minYear) /\ YearGiven(searchParams.maxYear)
         /\ searchParams.minYear.year <= searchParams.maxYear.year )
       => apiRequest.minAge.n <= apiRequest.maxAge.n
    /\ apiRequest.minAge.present => YearGiven(searchParams.minYear)
    /\ apiRequest.maxAge.present => YearGiven(searchParams.maxYear)
    /\ apiRequest.minAge.n >= 0 /\ apiRequest.maxAge.n >= 0

\* C30: extractCars of the Disposal Network driver processes at most 3
\* pages and adds the vehicles of a response at most once: what it takes
\* for page n never comes from a response it has already consumed for an
\* earlier page.
C30_EachPageOnce ==
  /\ disposal.pageNum <= maxPages
  /\ \A j, k \in DOMAIN disposal.allCarData :
       j # k => disposal.allCarData[j] # disposal.allCarData[k]
====
